---- MODULE Spec2Model ----
(***************************************************************************)
(* A model of the catalog component of LibraryManager (src/library.py):    *)
(* BookStatus, Book and Library.  The state is one Library object (its     *)
(* list of books), the JSON file it persists to, and a record of the last  *)
(* call made on it (arguments, returned value, raised exception, whether   *)
(* save_books ran), which the properties below read.                       *)
(*                                                                         *)
(* Text is modelled as a sequence of one-character strings, so that        *)
(* str.lower, str(int) and the substring test `in` are computed.  The file *)
(* is modelled as the list of dictionaries json.load returns (or as        *)
(* absent); a JSON null / Python None is the number None below.  The two   *)
(* status labels are Cyrillic in the source ('v nalichii', 'vydana'        *)
(* transliterated here, since a module holds ASCII only).                  *)
(***************************************************************************)
EXTENDS Integers, Sequences, FiniteSets

VARIABLES
    up,         \* TRUE while a Library object exists (main is running)
    books,      \* Library.books
    file,       \* the storage file: [exists, data]
    last,       \* the last call: [op, args, returned, raised, wrote]
    ever_held   \* ids of all books this Library object has held so far

vars == <<up, books, file, last, ever_held>>

-----------------------------------------------------------------------------
(* Bounds of the model *)

MaxBooks == 2       \* add_book is not called on a catalog holding this many
MaxId == 3          \* add_book is not called when it would assign more
MaxFileLen == 2     \* records in a file found at start-up (SpecLoad)

(* Python's None and JSON's null: outside every set of ids used here *)
None == -1000

Titles == { <<"D", "u">>, <<"a", "B">> }
Authors == { <<"H", "9">> }
Years == { 1999, 2021 }
Queries == { <<>>, <<"u">>, <<"A", "B">>, <<"h">>, <<"2", "0", "2">> }
BookIds == 0..MaxId

-----------------------------------------------------------------------------
(* BookStatus *)

BookStatus == <<"InStock", "Given">>

StatusValue == [InStock |-> "v nalichii", Given |-> "vydana"]

(* mutant: the loop compares the member's name, not its value *)
RECURSIVE GetByValueFrom_ByName(_, _)
GetByValueFrom_ByName(i, value) ==
    IF i > Len(BookStatus) THEN None
    ELSE IF BookStatus[i] = value THEN i
    ELSE GetByValueFrom_ByName(i + 1, value)

RECURSIVE GetByValueFrom(_, _)
GetByValueFrom(i, value) ==
    IF i > Len(BookStatus) THEN None
    ELSE IF StatusValue[BookStatus[i]] = value THEN i
    ELSE GetByValueFrom(i + 1, value)

get_by_value_ByName(value) == GetByValueFrom_ByName(1, value)

(* the index in BookStatus of the first member whose value is `value`,
   None when the loop ends without a return *)
get_by_value(value) == GetByValueFrom(1, value)

(* BookStatus.get_by_value(label) or BookStatus.InStock *)
StatusOrDefault(label) ==
    IF get_by_value(label) = None THEN "InStock"
    ELSE BookStatus[get_by_value(label)]

get_numerate_statuses == [i \in 1..Len(BookStatus) |-> BookStatus[i]]

-----------------------------------------------------------------------------
(* Book *)

Book(title, author, year, status) ==
    [id |-> None, title |-> title, author |-> author, year |-> year,
     status |-> status]

(* mutant: the status is stored by its name, not by its label *)
to_dict_StatusName(book) ==
    [id |-> book.id, title |-> book.title, author |-> book.author,
     year |-> book.year, status |-> book.status]

to_dict(book) ==
    [id |-> book.id, title |-> book.title, author |-> book.author,
     year |-> book.year, status |-> StatusValue[book.status]]

-----------------------------------------------------------------------------
(* str.lower, str(int), and `q in s` on text *)

LowerChar(c) ==
    CASE c = "A" -> "a" [] c = "B" -> "b" [] c = "D" -> "d"
      [] c = "H" -> "h" [] c = "U" -> "u" [] OTHER -> c

Lower(s) == [i \in 1..Len(s) |-> LowerChar(s[i])]

Digit(d) == CASE d = 0 -> "0" [] d = 1 -> "1" [] d = 2 -> "2" [] d = 3 -> "3"
              [] d = 4 -> "4" [] d = 5 -> "5" [] d = 6 -> "6" [] d = 7 -> "7"
              [] d = 8 -> "8" [] d = 9 -> "9"

RECURSIVE Str(_)
Str(n) ==
    IF n < 0 THEN <<"-">> \o Str(-n)
    ELSE IF n < 10 THEN <<Digit(n)>>
    ELSE Str(n \div 10) \o <<Digit(n % 10)>>

In(q, s) ==
    \E i \in 0..(Len(s) - Len(q)) : SubSeq(s, i + 1, i + Len(q)) = q

-----------------------------------------------------------------------------
(* Library *)

filename == "library.json"

Fields == {"id", "title", "author", "year", "status"}

create_book_from_dict(data) ==
    [Book(data.title, data.author, data.year, StatusOrDefault(data.status))
        EXCEPT !.id = data.id]

(* data[...] raises KeyError on a record without one of the keys read *)
RaisesKeyError(data) == \E i \in 1..Len(data) : ~(Fields \subseteq DOMAIN data[i])

load_books(f) ==
    IF f.exists
    THEN [i \in 1..Len(f.data) |-> create_book_from_dict(f.data[i])]
    ELSE <<>>

Max(S, default) == IF S = {} THEN default ELSE CHOOSE m \in S : \A x \in S : x <= m

(* mutant: the id is the number of books held *)
generate_id_ByCount(bs) == Len(bs)

(* mutant: the id is the smallest one no held book uses *)
generate_id_SmallestUnused(bs) ==
    CHOOSE n \in 0..Len(bs) :
        /\ \A i \in 1..Len(bs) : bs[i].id # n
        /\ \A m \in 0..(n - 1) : \E i \in 1..Len(bs) : bs[i].id = m

(* mutant: the id is the largest id held, not its successor *)
generate_id_NoSuccessor(bs) ==
    Max({bs[i].id : i \in {j \in 1..Len(bs) : bs[j].id # None}}, 0)

generate_id(bs) ==
    Max({bs[i].id : i \in {j \in 1..Len(bs) : bs[j].id # None}}, -1) + 1

(* what save_books leaves in the file *)
Dump(bs) == [exists |-> TRUE, data |-> [i \in 1..Len(bs) |-> to_dict(bs[i])]]

(* the position of the first book with this id, 0 when the loop finds none *)
FirstWithId(bs, book_id) ==
    IF \E i \in 1..Len(bs) : bs[i].id = book_id
    THEN CHOOSE i \in 1..Len(bs) :
            bs[i].id = book_id /\ \A j \in 1..(i - 1) : bs[j].id # book_id
    ELSE 0

(* mutant: the list is cut at position i *)
RemoveAt_Truncate(bs, i) == SubSeq(bs, 1, i - 1)

(* list.remove of the element at position i *)
RemoveAt(bs, i) == SubSeq(bs, 1, i - 1) \o SubSeq(bs, i + 1, Len(bs))

(* mutant: the query is not lowered *)
Matches_QueryAsTyped(book, query) ==
    \/ In(query, Lower(book.title))
    \/ In(query, Lower(book.author))
    \/ In(query, Str(book.year))

Matches(book, query) ==
    \/ In(Lower(query), Lower(book.title))
    \/ In(Lower(query), Lower(book.author))
    \/ In(Lower(query), Str(book.year))

SearchResults(bs, query) == SelectSeq(bs, LAMBDA b : Matches(b, query))

HeldIds(bs) == {bs[i].id : i \in 1..Len(bs)} \ {None}

Call(op, args, returned, raised, wrote) ==
    [op |-> op, args |-> args, returned |-> returned, raised |-> raised,
     wrote |-> wrote]

-----------------------------------------------------------------------------
(* Operations *)

Library__init__ ==
    /\ ~up
    /\ IF file.exists /\ RaisesKeyError(file.data)
       THEN /\ up' = FALSE
            /\ books' = <<>>
            /\ ever_held' = {}
            /\ last' = Call("__init__", [filename |-> filename], <<>>,
                            "KeyError", FALSE)
       ELSE /\ up' = TRUE
            /\ books' = load_books(file)
            /\ ever_held' = HeldIds(load_books(file))
            /\ last' = Call("__init__", [filename |-> filename], <<>>,
                            "none", FALSE)
    /\ UNCHANGED file

add_book(title, author, year) ==
    /\ up
    /\ Len(books) < MaxBooks
    /\ generate_id(books) <= MaxId
    /\ LET book == [Book(title, author, year, "InStock")
                        EXCEPT !.id = generate_id(books)]
       IN /\ books' = Append(books, book)
          /\ file' = Dump(books')
          /\ ever_held' = ever_held \cup {book.id}
          /\ last' = Call("add_book",
                          [title |-> title, author |-> author, year |-> year],
                          <<book>>, "none", TRUE)
    /\ UNCHANGED up

(* mutant: save_books runs after the loop too, before the raise *)
remove_book_SavesBeforeRaise(book_id) ==
    /\ up
    /\ LET i == FirstWithId(books, book_id)
       IN IF i # 0
          THEN /\ books' = RemoveAt(books, i)
               /\ file' = Dump(books')
               /\ last' = Call("remove_book", [book_id |-> book_id], <<>>,
                               "none", TRUE)
          ELSE /\ UNCHANGED books
               /\ file' = Dump(books)
               /\ last' = Call("remove_book", [book_id |-> book_id], <<>>,
                               "ValueError", TRUE)
    /\ UNCHANGED <<up, ever_held>>

remove_book(book_id) ==
    /\ up
    /\ LET i == FirstWithId(books, book_id)
       IN IF i # 0
          THEN /\ books' = RemoveAt(books, i)
               /\ file' = Dump(books')
               /\ last' = Call("remove_book", [book_id |-> book_id], <<>>,
                               "none", TRUE)
          ELSE /\ UNCHANGED <<books, file>>
               /\ last' = Call("remove_book", [book_id |-> book_id], <<>>,
                               "ValueError", FALSE)
    /\ UNCHANGED <<up, ever_held>>

search_books(query) ==
    /\ up
    /\ last' = Call("search_books", [query |-> query],
                    SearchResults(books, query), "none", FALSE)
    /\ UNCHANGED <<up, books, file, ever_held>>

(* mutant: save_books runs whether or not the status differs *)
change_status_AlwaysSaves(book_id, new_status) ==
    /\ up
    /\ LET i == FirstWithId(books, book_id)
       IN IF i # 0
          THEN /\ books' = [books EXCEPT ![i].status = new_status]
               /\ file' = Dump(books')
               /\ last' = Call("change_status",
                               [book_id |-> book_id, new_status |-> new_status],
                               <<books'[i]>>, "none", TRUE)
          ELSE /\ UNCHANGED <<books, file>>
               /\ last' = Call("change_status",
                               [book_id |-> book_id, new_status |-> new_status],
                               <<>>, "ValueError", FALSE)
    /\ UNCHANGED <<up, ever_held>>

change_status(book_id, new_status) ==
    /\ up
    /\ LET i == FirstWithId(books, book_id)
       IN IF i # 0
          THEN IF books[i].status # new_status
               THEN /\ books' = [books EXCEPT ![i].status = new_status]
                    /\ file' = Dump(books')
                    /\ last' = Call("change_status",
                                [book_id |-> book_id, new_status |-> new_status],
                                <<books'[i]>>, "none", TRUE)
               ELSE /\ UNCHANGED <<books, file>>
                    /\ last' = Call("change_status",
                                [book_id |-> book_id, new_status |-> new_status],
                                <<books[i]>>, "none", FALSE)
          ELSE /\ UNCHANGED <<books, file>>
               /\ last' = Call("change_status",
                               [book_id |-> book_id, new_status |-> new_status],
                               <<>>, "ValueError", FALSE)
    /\ UNCHANGED <<up, ever_held>>

(* the process ends (Ctrl-C in main): the object is gone, the file stays *)
Exit ==
    /\ up
    /\ up' = FALSE
    /\ books' = <<>>
    /\ ever_held' = {}
    /\ last' = Call("exit", [filename |-> filename], <<>>, "none", FALSE)
    /\ UNCHANGED file

-----------------------------------------------------------------------------
(* Specifications *)

AbsentFile == [exists |-> FALSE, data |-> <<>>]

(* Library(filename) constructed where no file exists *)
Init ==
    /\ up = TRUE
    /\ books = <<>>
    /\ file = AbsentFile
    /\ ever_held = {}
    /\ last = Call("__init__", [filename |-> filename], <<>>, "none", FALSE)

AddBook == \E t \in Titles, a \in Authors, y \in Years : add_book(t, a, y)
RemoveBook == \E id \in BookIds : remove_book(id)
SearchBooks == \E q \in Queries : search_books(q)
ChangeStatus ==
    \E id \in BookIds, i \in DOMAIN get_numerate_statuses :
        change_status(id, get_numerate_statuses[i])

Next ==
    \/ AddBook
    \/ RemoveBook
    \/ SearchBooks
    \/ ChangeStatus
    \/ Exit
    \/ Library__init__

Spec == Init /\ [][Next]_vars

(* Records a file found at start-up may hold: written by save_books, or
   compatible external data (a label no status has, a null or repeated id,
   a record without its status) *)
FileRecords ==
    { [id |-> 0, title |-> <<"D", "u">>, author |-> <<"H", "9">>,
       year |-> 1999, status |-> "v nalichii"],
      [id |-> 2, title |-> <<"a", "B">>, author |-> <<"H", "9">>,
       year |-> 2021, status |-> "vydana"],
      [id |-> 2, title |-> <<"D", "u">>, author |-> <<"H", "9">>,
       year |-> 2021, status |-> "lost"],
      [id |-> None, title |-> <<"a", "B">>, author |-> <<"H", "9">>,
       year |-> 1999, status |-> "Given"],
      [id |-> 1, title |-> <<"D", "u">>, author |-> <<"H", "9">>,
       year |-> 1999] }

FileContents ==
    UNION { [1..n -> FileRecords] : n \in 0..MaxFileLen }

(* the program not yet started, over any file *)
InitLoad ==
    /\ up = FALSE
    /\ books = <<>>
    /\ file \in {AbsentFile} \cup {[exists |-> TRUE, data |-> d] : d \in FileContents}
    /\ ever_held = {}
    /\ last = Call("exit", [filename |-> filename], <<>>, "none", FALSE)

SpecLoad == InitLoad /\ [][Next]_vars

-----------------------------------------------------------------------------
(* Vocabulary of the properties *)

AllIds(bs) == {bs[i].id : i \in 1..Len(bs)}

(* the largest id held, -1 when none is *)
MaxHeld(bs) == Max(HeldIds(bs), -1)

(* the smallest non-negative integer no held book uses *)
SmallestUnused(bs) ==
    CHOOSE n \in 0..Len(bs) :
        n \notin AllIds(bs) /\ \A m \in 0..(n - 1) : m \in AllIds(bs)

(* the file holds exactly the records of bs, in order, statuses by label *)
Persisted(f, bs) ==
    /\ f.exists
    /\ Len(f.data) = Len(bs)
    /\ \A i \in 1..Len(bs) :
        /\ DOMAIN f.data[i] = Fields
        /\ f.data[i].id = bs[i].id
        /\ f.data[i].title = bs[i].title
        /\ f.data[i].author = bs[i].author
        /\ f.data[i].year = bs[i].year
        /\ f.data[i].status = StatusValue[bs[i].status]

CasePairs == { <<"A", "a">>, <<"B", "b">>, <<"D", "d">>, <<"H", "h">>,
               <<"U", "u">> }

SameIgnoringCase(a, b) ==
    a = b \/ <<a, b>> \in CasePairs \/ <<b, a>> \in CasePairs

(* q occurs in s, letters compared without regard to case *)
ContainsIgnoringCase(s, q) ==
    \E k \in 0..(Len(s) - Len(q)) :
        \A j \in 1..Len(q) : SameIgnoringCase(s[k + j], q[j])

(* q occurs in s as it is *)
Contains(s, q) ==
    \E k \in 0..(Len(s) - Len(q)) : \A j \in 1..Len(q) : s[k + j] = q[j]

DigitValue(c) ==
    CASE c = "0" -> 0 [] c = "1" -> 1 [] c = "2" -> 2 [] c = "3" -> 3
      [] c = "4" -> 4 [] c = "5" -> 5 [] c = "6" -> 6 [] c = "7" -> 7
      [] c = "8" -> 8 [] c = "9" -> 9 [] OTHER -> -1

RECURSIVE DecimalValue(_)
DecimalValue(s) ==
    IF s = <<>> THEN 0
    ELSE 10 * DecimalValue(SubSeq(s, 1, Len(s) - 1)) + DigitValue(s[Len(s)])

(* s is the decimal numeral of the non-negative integer n *)
IsDecimalOf(s, n) ==
    /\ Len(s) >= 1
    /\ \A i \in 1..Len(s) : DigitValue(s[i]) >= 0
    /\ Len(s) > 1 => s[1] # "0"
    /\ DecimalValue(s) = n

ShouldMatch(book, query) ==
    \/ ContainsIgnoringCase(book.title, query)
    \/ ContainsIgnoringCase(book.author, query)
    \/ Contains(Str(book.year), query)

(* sel holds exactly the books of bs that should match, in the order of bs *)
IsSelection(sel, bs, query) ==
    LET idx == {i \in 1..Len(bs) : ShouldMatch(bs[i], query)}
    IN /\ Len(sel) = Cardinality(idx)
       /\ \A i \in idx : sel[Cardinality({j \in idx : j <= i})] = bs[i]

(* the status a label names, InStock when it names none *)
StatusOfLabel(label) ==
    IF \E st \in {"InStock", "Given"} : StatusValue[st] = label
    THEN CHOOSE st \in {"InStock", "Given"} : StatusValue[st] = label
    ELSE "InStock"

WellFormed(f) ==
    f.exists => \A i \in 1..Len(f.data) : Fields \subseteq DOMAIN f.data[i]

-----------------------------------------------------------------------------
(* C1: in every state reachable from a Library constructed over an absent
   file, every held book has a non-null id and no two held books share an
   id. *)
C1_IdsNonNullUnique ==
    up => /\ \A i \in 1..Len(books) : books[i].id # None
          /\ \A i, j \in 1..Len(books) : i # j => books[i].id # books[j].id

(* two books held, the second added after a removal *)
C1_Witness ==
    /\ up
    /\ Len(books) = 2
    /\ last.op = "add_book"
    /\ Cardinality(ever_held) > 2

(* C2: add_book appends exactly one book at the end of books, with the given
   title, author and year, status InStock and id 1 + the largest non-null id
   held before the call (0 when none is held), and returns it; when the ids
   held are 0..k-2 (an empty start and k-1 adds, no removal) the id is k-1. *)
C2_AddAppends ==
    [][last'.op = "add_book" =>
        /\ Len(books') = Len(books) + 1
        /\ SubSeq(books', 1, Len(books)) = books
        /\ LET b == books'[Len(books')]
           IN /\ b.title = last'.args.title
              /\ b.author = last'.args.author
              /\ b.year = last'.args.year
              /\ b.status = "InStock"
              /\ b.id = 1 + MaxHeld(books)
              /\ HeldIds(books) = {} => b.id = 0
              /\ (AllIds(books) = 0..(Len(books) - 1)) => b.id = Len(books)
              /\ last'.returned = <<b>>
              /\ last'.raised = "none"
        /\ Persisted(file', books')]_vars

(* an add on a catalog loaded from a file whose one record has a null id *)
C2_Witness ==
    /\ last.op = "add_book"
    /\ Len(books) = 2
    /\ books[1].id = None
    /\ books[2].id = 0
    /\ books[2].year = 2021

(* C3 as claimed: after a successful remove_book, the next add_book assigns
   1 + the largest id held, and never the smallest unused id. *)
C3_NeverSmallestUnused ==
    [][(last.op = "remove_book" /\ last.raised = "none" /\ last'.op = "add_book")
        => /\ last'.returned[1].id = 1 + MaxHeld(books)
           /\ last'.returned[1].id # SmallestUnused(books)]_vars

(* C3 as amended: after a successful remove_book, the next add_book assigns
   1 + the largest id held (0 when none is held); it never assigns an unused
   id below the largest id held (no gap is backfilled), and it assigns the
   smallest unused id exactly when the ids held are 0..max with no gap. *)
C3_NoBackfill ==
    [][(last.op = "remove_book" /\ last.raised = "none" /\ last'.op = "add_book")
        => LET n == last'.returned[1].id
           IN /\ n = 1 + MaxHeld(books)
              /\ \A g \in 0..MaxHeld(books) : g \notin HeldIds(books) => n # g
              /\ (n = SmallestUnused(books))
                    <=> (HeldIds(books) = 0..MaxHeld(books))]_vars

(* an add over a gap: id 0 was removed, ids 1 and 2 are held *)
C3_Witness ==
    /\ up
    /\ last.op = "add_book"
    /\ Len(books) = 2
    /\ books[1].id = 1
    /\ last.returned[1].id = 2
    /\ 0 \in ever_held

(* C4 as claimed: the id add_book returns differs from the id of every book
   ever held before, removed ones included. *)
C4_NeverReused ==
    [][last'.op = "add_book" => last'.returned[1].id \notin ever_held]_vars

(* C4 as amended: the id add_book returns differs from the id of every book
   held at the time of the call; it equals the id of a removed book only if
   that id is above every id still held. *)
C4_ReusedOnlyAboveHeld ==
    [][last'.op = "add_book" =>
        LET n == last'.returned[1].id
        IN /\ n \notin HeldIds(books)
           /\ n \in ever_held => \A h \in HeldIds(books) : h < n]_vars

(* an add after a removal that left a smaller id held *)
C4_Witness ==
    /\ up
    /\ last.op = "add_book"
    /\ Len(books) = 2
    /\ ever_held \ HeldIds(books) # {}
    /\ last.returned[1].id = books[2].id

(* C5: whenever a Library is up, loading its file again gives its books:
   same length, order, ids, titles, authors, years and statuses. *)
C5_ReloadReproduces ==
    up => /\ ~(file.exists /\ RaisesKeyError(file.data))
          /\ load_books(file) = books
          /\ books # <<>> => file.exists

(* after a status change was written, with two books held *)
C5_Witness ==
    /\ up
    /\ last.op = "change_status"
    /\ last.wrote
    /\ Len(books) = 2
    /\ books[1].status = "InStock"
    /\ books[2].status = "Given"

(* C6: remove_book and change_status with an id no held book has raise
   ValueError and leave books and the file as they were, with no write. *)
C6_UnknownIdRaises ==
    [][(last'.op \in {"remove_book", "change_status"}
            /\ last'.args.book_id \notin AllIds(books))
        => /\ last'.raised = "ValueError"
           /\ last'.returned = <<>>
           /\ ~last'.wrote
           /\ books' = books
           /\ file' = file]_vars

(* a failed remove on a catalog that holds books *)
C6_Witness ==
    /\ last.op = "remove_book"
    /\ last.raised = "ValueError"
    /\ Len(books) = 2
    /\ last.args.book_id \notin AllIds(books)

C8_ChangeStatus ==
    [][(last'.op = "change_status" /\ last'.args.book_id \in AllIds(books))
        => /\ last'.raised = "none"
           /\ Len(books') = Len(books)
           /\ \E i \in 1..Len(books) :
                /\ books[i].id = last'.args.book_id
                /\ last'.returned = <<books'[i]>>
                /\ books'[i] = [books[i] EXCEPT !.status = last'.args.new_status]
                /\ \A j \in 1..Len(books) : j # i => books'[j] = books[j]
                /\ last'.wrote <=> (books[i].status # last'.args.new_status)
           /\ last'.wrote => Persisted(file', books')
           /\ ~last'.wrote => file' = file]_vars

(* a change to the status the book already has *)
C8_Witness ==
    /\ up
    /\ last.op = "change_status"
    /\ last.raised = "none"
    /\ ~last.wrote
    /\ last.args.new_status = "Given"
    /\ Len(books) = 2

(* C9: search_books returns exactly the books whose title or author contains
   the query without regard to case, or whose year's decimal numeral contains
   it, in the order of books (none when nothing matches), and changes neither
   books nor the file. *)
C9_SearchExact ==
    [][last'.op = "search_books" =>
        /\ \A i \in 1..Len(books) : IsDecimalOf(Str(books[i].year), books[i].year)
        /\ IsSelection(last'.returned, books, last'.args.query)
        /\ last'.raised = "none"
        /\ ~last'.wrote
        /\ books' = books
        /\ file' = file]_vars

(* an upper-case query that matches one of two books by its title *)
C9_Witness ==
    /\ last.op = "search_books"
    /\ last.args.query = <<"A", "B">>
    /\ Len(books) = 2
    /\ Len(last.returned) = 1
    /\ last.returned[1] = books[2]

(* C10: construction over an absent file gives no books; over a file whose
   records all have the five fields it does not fail, and gives the books in
   file order, each with its record's id, title, author and year and the
   status its label names, InStock when the label names none. *)
C10_LoadDecodes ==
    (last.op = "__init__" /\ WellFormed(file)) =>
        /\ last.raised = "none"
        /\ up
        /\ ~file.exists => books = <<>>
        /\ file.exists =>
            /\ Len(books) = Len(file.data)
            /\ \A i \in 1..Len(books) :
                /\ books[i].id = file.data[i].id
                /\ books[i].title = file.data[i].title
                /\ books[i].author = file.data[i].author
                /\ books[i].year = file.data[i].year
                /\ books[i].status = StatusOfLabel(file.data[i].status)

(* a load of a known label after an unknown one *)
C10_Witness ==
    /\ last.op = "__init__"
    /\ up
    /\ Len(books) = 2
    /\ file.data[1].status = "lost"
    /\ books[1].status = "InStock"
    /\ file.data[2].status = "vydana"
    /\ books[2].status = "Given"

====
